---- MODULE Spec2Model ----
(***************************************************************************)
(* Model of scripts/butterworthfilter.aa.py: the function lpf_modata and   *)
(* the script around it (open_dataset -> lpf_modata -> to_netcdf).         *)
(*                                                                         *)
(* The arithmetic of lines 7-11 is Python float arithmetic (IEEE-754       *)
(* binary64, round to nearest, ties to even).  It is modelled bit-exactly: *)
(* a float is a sign, a 53-bit mantissa and a binary exponent; the         *)
(* mantissa is held in limbs of 15 bits because the model checker's        *)
(* integers are 32 bits wide.                                              *)
(***************************************************************************)
EXTENDS Integers, Sequences, FiniteSets, TLC

(***************************************************************************)
(* Multi-limb naturals: NLimbs limbs, little endian, base 2^15.            *)
(***************************************************************************)
LimbBits == 15

LimbBase == 2^LimbBits

NLimbs == 8

Limbs == 1..NLimbs

BigZero == [i \in Limbs |-> 0]

BigOfInt(n) ==
  [i \in Limbs |-> IF i = 1 THEN n % LimbBase
                   ELSE IF i = 2 THEN (n \div LimbBase) % LimbBase
                   ELSE IF i = 3 THEN n \div (LimbBase * LimbBase)
                   ELSE 0]

BigIsZero(a) == a = BigZero

BigOdd(a) == a[1] % 2 = 1

\* propagate carries (or borrows) through limbs w[i..] that may be out of range
\* (s \in {e} binds s to the value of e, so that it is computed once)
RECURSIVE CarryFrom(_, _, _)
CarryFrom(w, i, c) ==
  IF i > NLimbs THEN <<>>
  ELSE CHOOSE r \in { <<s % LimbBase>> \o CarryFrom(w, i + 1, s \div LimbBase) :
                      s \in {w[i] + c} } : TRUE

BigAdd(a, b) == CarryFrom([i \in Limbs |-> a[i] + b[i]], 1, 0)

\* a - b for a >= b
BigSub(a, b) == CarryFrom([i \in Limbs |-> a[i] - b[i]], 1, 0)

\* a * d for 0 <= d < 2^15
BigMulSmall(a, d) == CarryFrom([i \in Limbs |-> a[i] * d], 1, 0)

BigLt(a, b) ==
  LET D == {i \in Limbs : a[i] # b[i]}
  IN  D # {} /\ (LET top == CHOOSE i \in D : \A j \in D : j <= i IN a[top] < b[top])

\* a * 2^(15 k)
ShlLimbs(a, k) == [i \in Limbs |-> IF i > k THEN a[i - k] ELSE 0]

\* a \div 2^(15 k)
ShrLimbs(a, k) == [i \in Limbs |-> IF i + k <= NLimbs THEN a[i + k] ELSE 0]

\* a * 2^k
BigShl(a, k) == BigMulSmall(ShlLimbs(a, k \div LimbBits), 2^(k % LimbBits))

\* a \div 2^k
BigShr(a, k) ==
  LET b == ShrLimbs(a, k \div LimbBits)
      s == k % LimbBits
  IN  [i \in Limbs |-> (b[i] \div 2^s)
                       + (IF i < NLimbs THEN (b[i + 1] % 2^s) * 2^(LimbBits - s) ELSE 0)]

\* number of bits of a
BitLen(a) ==
  IF BigIsZero(a) THEN 0
  ELSE LET top == CHOOSE i \in Limbs : a[i] # 0 /\ \A j \in Limbs : j > i => a[j] = 0
       IN  (top - 1) * LimbBits + Cardinality({k \in 0..(LimbBits - 1) : 2^k <= a[top]})

\* a * b, one limb of b at a time (a * b < 2^120)
RECURSIVE BigMulFrom(_, _, _)
BigMulFrom(a, b, i) ==
  IF i > NLimbs THEN BigZero
  ELSE BigAdd(ShlLimbs(BigMulSmall(a, b[i]), i - 1), BigMulFrom(a, b, i + 1))

BigMul(a, b) == BigMulFrom(a, b, 1)

DigitBits == 5

\* k further base-32 digits of the long division by b: qr = <<quotient, remainder>>
\* one base-32 digit of the long division by b (2^52 <= b < 2^53, qr[2] < b):
\* the digit is the quotient of the leading bits, or one more
DivStep(qr, b) ==
  LET r   == BigShl(qr[2], DigitBits)
      est == (r[3] + r[4] * LimbBase) \div (b[3] + b[4] * LimbBase + 1)
      d   == CHOOSE x \in {est, est + 1} :
               /\ ~BigLt(r, BigMulSmall(b, x))
               /\ BigLt(r, BigMulSmall(b, x + 1))
  IN  <<BigAdd(BigShl(qr[1], DigitBits), BigOfInt(d)), BigSub(r, BigMulSmall(b, d))>>

RECURSIVE DivDigits(_, _, _)
DivDigits(qr, b, k) ==
  IF k = 0 THEN qr
  ELSE CHOOSE res \in { DivDigits(n, b, k - 1) : n \in {DivStep(qr, b)} } : TRUE

(***************************************************************************)
(* binary64 values: [sign, man, exp], value (-1)^sign * man * 2^exp with   *)
(* man a 53-bit Big (2^52 <= man < 2^53), or man = 0 for zero.             *)
(***************************************************************************)
MantBits == 53

FZero == [sign |-> 0, man |-> BigZero, exp |-> 0]

\* round (-1)^sign * big * 2^exp (plus a sticky remainder) to nearest, ties to even
RoundToFloat(sign, big, exp, sticky) ==
  IF BigIsZero(big) THEN FZero
  ELSE
    LET n == BitLen(big)
    IN  IF n <= MantBits
        THEN [sign |-> sign, man |-> BigShl(big, MantBits - n), exp |-> exp - (MantBits - n)]
        ELSE
          LET k    == n - MantBits
              kept == BigShr(big, k)
              rnd  == BigOdd(BigShr(big, k - 1))
              low  == sticky \/ BigShl(BigShr(big, k - 1), k - 1) # big
              up   == rnd /\ (low \/ BigOdd(kept))
              m    == IF up THEN BigAdd(kept, BigOfInt(1)) ELSE kept
          IN  IF BitLen(m) > MantBits
              THEN [sign |-> sign, man |-> BigShr(m, 1), exp |-> exp + k + 1]
              ELSE [sign |-> sign, man |-> m, exp |-> exp + k]

\* float(n) for a Python int n (exact for the small ints used here)
FloatOfInt(n) ==
  IF n < 0 THEN RoundToFloat(1, BigOfInt(-n), 0, FALSE)
  ELSE RoundToFloat(0, BigOfInt(n), 0, FALSE)

FIsZero(a) == BigIsZero(a.man)

\* a * b
FMul(a, b) ==
  RoundToFloat((a.sign + b.sign) % 2, BigMul(a.man, b.man), a.exp + b.exp, FALSE)

DivDigitCount == 11

\* a / b for b # 0 (Python raises ZeroDivisionError for b = 0 before dividing)
FDiv(a, b) ==
  IF FIsZero(a) THEN FZero
  ELSE
    LET first == IF BigLt(a.man, b.man) THEN <<BigZero, a.man>>
                 ELSE <<BigOfInt(1), BigSub(a.man, b.man)>>
        qr    == DivDigits(first, b.man, DivDigitCount)
    IN  RoundToFloat((a.sign + b.sign) % 2, qr[1],
                     a.exp - b.exp - DigitBits * DivDigitCount, ~BigIsZero(qr[2]))

\* a < b
FLt(a, b) ==
  LET neg(x) == x.sign = 1 /\ ~FIsZero(x)
      pos(x) == x.sign = 0 /\ ~FIsZero(x)
      magLt(x, y) == \* |x| < |y|
        IF FIsZero(y) THEN FALSE
        ELSE IF FIsZero(x) THEN TRUE
        ELSE x.exp < y.exp \/ (x.exp = y.exp /\ BigLt(x.man, y.man))
  IN  IF neg(a) THEN (~neg(b) \/ magLt(b, a))
      ELSE IF pos(a) THEN (pos(b) /\ magLt(a, b))
      ELSE pos(b)

\* a == b (0.0 == -0.0)
FEq(a, b) == ~FLt(a, b) /\ ~FLt(b, a)

\* a <= b
FLe(a, b) == ~FLt(b, a)

(***************************************************************************)
(* Array elements: <<kind, payload>>.                                      *)
(*   "num"  a finite input value          "nan"  the missing-value marker  *)
(*   "inf"  an infinity (not missing)     "bool" an element of a mask      *)
(*   "lpf"  a finite filtered value: the value the filter design sos gives *)
(*          at time index t for the input column x.  The Butterworth       *)
(*          coefficients are irrational, so a filtered value is kept as    *)
(*          the term that determines it, not as a number.                  *)
(***************************************************************************)
NaN == <<"nan", <<>>>>

Inf == <<"inf", <<>>>>

Num(v) == <<"num", <<v>>>>

Bool(b) == <<"bool", <<b>>>>

Lpf(sos, padtype, x, t) == <<"lpf", <<sos, padtype, x, t>>>>

\* xarray isnull/notnull on one float element: only NaN is null
isnull(e) == e[1] = "nan"

\* numpy isfinite on one element
isfinite(e) == e[1] \in {"num", "lpf"}

(***************************************************************************)
(* xarray.DataArray objects: [name, dims, shape, coords, data]; data maps  *)
(* each index tuple (1-based) to an element.                               *)
(***************************************************************************)
Indices(shape) ==
  IF Len(shape) = 0 THEN {<<>>}
  ELSE IF Len(shape) = 1 THEN {<<t>> : t \in 1..shape[1]}
  ELSE {<<t, x>> : t \in 1..shape[1], x \in 1..shape[2]}

\* the 1-D slice along axis 0 through idx
Column(a, idx) == [t \in 1..a.shape[1] |-> a.data[<<t>> \o Tail(idx)]]

\* DataArray.notnull(): a new mask array with the same dims and coords
notnull(a) == [a EXCEPT !.data = [idx \in DOMAIN a.data |-> Bool(~isnull(a.data[idx]))]]

\* fillna that leaves the missing values in place
fillna_noop(a, value) == a

\* DataArray.fillna(value): a new array, value where a is null, a elsewhere
fillna(a, value) ==
  [a EXCEPT !.data = [idx \in DOMAIN a.data |->
                        IF isnull(a.data[idx]) THEN value ELSE a.data[idx]]]

\* where that does not restore the mask
where_unmasked(a, cond) == a

\* DataArray.where(cond): a new array, a where cond holds, NaN elsewhere
where(a, cond) ==
  [a EXCEPT !.data = [idx \in DOMAIN a.data |->
                        IF cond.data[idx] = Bool(TRUE) THEN a.data[idx] ELSE NaN]]

(***************************************************************************)
(* scipy.signal                                                            *)
(***************************************************************************)
FilterOrder == 4

One == FloatOfInt(1)

\* validation that lets the Nyquist frequency itself pass: 0 < Wn <= 1
WnValid_inclusive(Wn) == FLt(FZero, Wn) /\ FLe(Wn, One)

\* signal.butter validation of a digital critical frequency: 0 < Wn < 1
WnValid(Wn) == FLt(FZero, Wn) /\ FLt(Wn, One)

\* signal.butter(N, Wn, 'lowpass', output=...): the design, named by its parameters
butter(N, Wn, output) == [N |-> N, Wn |-> Wn, btype |-> "lowpass", output |-> output]

\* number of second-order sections of an order-N design
NSections(sos) == (sos.N + 1) \div 2

\* sosfiltfilt's default pad length: 3 * ntaps, ntaps = 2 * n_sections + 1
\* (no section of a Butterworth low-pass has a zero b2 or a2 coefficient)
PadLen(sos) == 3 * (2 * NSections(sos) + 1)

\* length check that lets a series of exactly padlen samples pass
SosFiltFiltFails_strict(sos, shape) == Len(shape) = 0 \/ shape[1] < PadLen(sos)

\* sosfiltfilt raises ValueError for a 0-d x, or when x.shape[axis] <= padlen
SosFiltFiltFails(sos, shape) == Len(shape) = 0 \/ shape[1] <= PadLen(sos)

\* signal.sosfiltfilt(sos, x, padtype=..., axis=0) on the data of array a:
\* every column is filtered forward and backward on its own; one NaN or
\* infinity in a column turns the whole filtered column into NaN (inf - inf
\* in the recursion), a finite column gives finite filtered values
sosfiltfilt(sos, a, padtype) ==
  [idx \in DOMAIN a.data |->
     IF \A t \in 1..a.shape[1] : isfinite(Column(a, idx)[t])
     THEN Lpf(sos, padtype, Column(a, idx), idx[1])
     ELSE NaN]

\* the filter applied to the bare values: the coordinates are lost
apply_ufunc_values(sos, a, padtype) ==
  [a EXCEPT !.data = sosfiltfilt(sos, a, padtype), !.coords = [d \in {} |-> <<>>]]

\* xr.apply_ufunc(func, sos, a, kwargs): a new array with the dims, coords
\* and name of a and the data func returned
apply_ufunc(sos, a, padtype) == [a EXCEPT !.data = sosfiltfilt(sos, a, padtype)]

(***************************************************************************)
(* Inputs                                                                  *)
(***************************************************************************)
\* longest time axis tried
MaxLen == 16

\* the period arguments tried are k/2 for k in -MaxNegHalves..MaxHalves,
\* the script's period, and the omitted argument
MaxNegHalves == 2

MaxHalves == 6

DefaultPeriod == 10

ScriptPeriod == 120

\* the float k/2
PeriodOfHalves(k) == FDiv(FloatOfInt(k), FloatOfInt(2))

\* a period argument is <<p>>, or <<>> when the caller omits it
PeriodArgs ==
  {<<PeriodOfHalves(k)>> : k \in (-MaxNegHalves)..MaxHalves} \cup {<<FloatOfInt(ScriptPeriod)>>, <<>>}

\* shortest of the long time axes tried (the short ones are 0 and 1)
NearLen == 14

TimeLens == {0, 1} \cup (NearLen..MaxLen)

Shapes == {<<>>} \cup {<<n>> : n \in TimeLens} \cup {<<n, 2>> : n \in TimeLens}

DimNames == <<"time", "x">>

FirstIdx(shape) == [i \in 1..Len(shape) |-> 1]

LastIdx(shape) == [i \in 1..Len(shape) |-> shape[i]]

ElemOf(kind, v) == IF kind = "nan" THEN NaN ELSE IF kind = "inf" THEN Inf ELSE Num(v)

\* the variable 'aa' with the given shape: finite values, except that its
\* first and its last element are of the given kinds
InputArray(shape, first, last) ==
  [name   |-> "aa",
   dims   |-> SubSeq(DimNames, 1, Len(shape)),
   shape  |-> shape,
   coords |-> [d \in {DimNames[i] : i \in 1..Len(shape)} |->
                 [j \in 1..shape[CHOOSE i \in 1..Len(shape) : DimNames[i] = d] |-> 100 + j]],
   data   |-> [idx \in Indices(shape) |->
                 IF idx = LastIdx(shape) THEN ElemOf(last, 7)
                 ELSE IF idx = FirstIdx(shape) THEN ElemOf(first, 3)
                 ELSE Num(idx[1] + idx[Len(idx)])]]

ElemKinds == {"num", "nan", "inf"}

InputArrays == {InputArray(sh, f, l) : sh \in Shapes, f \in ElemKinds, l \in ElemKinds}

\* contents of a file: <<>> when the file does not exist, else <<dataset>>,
\* a dataset mapping variable names to arrays
Dataset(var, a) == [v \in {var} |-> a]

FileNames == {"tmp.nc", "tmp2.nc"}

InputFiles ==
  {<<>>} \cup {<<Dataset("aa", a)>> : a \in InputArrays}
         \cup {<<Dataset("bb", InputArray(<<MaxLen>>, "num", "num"))>>}

(***************************************************************************)
(* State                                                                   *)
(***************************************************************************)
VARIABLES
  mode,      \* "script": the module is run; "function": lpf_modata is called
  disk,      \* contents of tmp.nc and tmp2.nc
  heap,      \* the arrays created so far; a reference is an index
  globals,   \* module-level names ds, arr, arr_lpf
  callArgs,  \* arguments of the call of lpf_modata
  locals,    \* names bound in the frame of lpf_modata
  stdout,    \* what print has written
  pc,        \* the line that runs next
  err,       \* the exception that ended the run, "none" otherwise
  orig,      \* <<value of the argument array when lpf_modata was called>>
  steps      \* the steps run so far

vars == <<mode, disk, heap, globals, callArgs, locals, stdout, pc, err, orig, steps>>

Bind(f, k, v) == [x \in DOMAIN f \cup {k} |-> IF x = k THEN v ELSE f[x]]

Empty == [x \in {} |-> 0]

NoArgs == [dat |-> 0, period |-> <<>>]

Init ==
  /\ mode \in {"script", "function"}
  /\ IF mode = "script"
     THEN /\ \E f \in InputFiles : disk = [n \in FileNames |-> IF n = "tmp.nc" THEN f ELSE <<>>]
          /\ heap = <<>>
          /\ callArgs = NoArgs
          /\ pc = "L21"
     ELSE /\ disk = [n \in FileNames |-> <<>>]
          /\ \E a \in InputArrays : heap = <<a>>
          /\ \E p \in PeriodArgs : callArgs = [dat |-> 1, period |-> p]
          /\ pc = "call"
  /\ globals = Empty
  /\ locals = Empty
  /\ stdout = <<>>
  /\ err = "none"
  /\ orig = <<>>
  /\ steps = <<>>

(***************************************************************************)
(* float('30.41667') = 0x1.e6aaae297396dp+4                                *)
(***************************************************************************)
DaysPerMonth ==
  [sign |-> 0, man |-> <<14701, 17710, 10923, 243, 0, 0, 0, 0>>, exp |-> -48]

\* 30.41667*24*3600, evaluated left to right
MonthSeconds(days) == FMul(FMul(days, FloatOfInt(24)), FloatOfInt(3600))

Raise(kind) ==
  /\ pc' = "error"
  /\ err' = kind

Goto(line) ==
  /\ pc' = line
  /\ err' = err

Log(step) == steps' = Append(steps, step)

(***************************************************************************)
(* The script, lines 21-26                                                 *)
(***************************************************************************)
\* line 21: ds = xr.open_dataset('tmp.nc', decode_times=False)
OpenDataset ==
  /\ pc = "L21"
  /\ Log("open_dataset")
  /\ IF disk["tmp.nc"] = <<>>
     THEN Raise("InputNotFound") /\ UNCHANGED globals
     ELSE Goto("L22") /\ globals' = Bind(globals, "ds", disk["tmp.nc"][1])
  /\ UNCHANGED <<mode, disk, heap, callArgs, locals, stdout, orig>>

\* line 22: arr = ds['aa']
SelectVariable ==
  /\ pc = "L22"
  /\ Log("getitem")
  /\ IF "aa" \in DOMAIN globals["ds"]
     THEN /\ Goto("L24")
          /\ heap' = Append(heap, globals["ds"]["aa"])
          /\ globals' = Bind(globals, "arr", Len(heap) + 1)
     ELSE Raise("InputNotFound") /\ UNCHANGED <<heap, globals>>
  /\ UNCHANGED <<mode, disk, callArgs, locals, stdout, orig>>

\* binding of the parameters of def lpf_modata(dat, period=10)
Enter(args) ==
  /\ locals' = [n \in {"dat", "period"} |->
                  IF n = "dat" THEN args.dat
                  ELSE IF args.period = <<>> THEN FloatOfInt(DefaultPeriod)
                  ELSE args.period[1]]
  /\ orig' = <<heap[args.dat]>>
  /\ callArgs' = args

\* line 24: arr_lpf = lpf_modata(arr, period=120), the call
ScriptCall ==
  /\ pc = "L24"
  /\ mode = "script"
  /\ Log("call")
  /\ Enter([dat |-> globals["arr"], period |-> <<FloatOfInt(ScriptPeriod)>>])
  /\ Goto("L7")
  /\ UNCHANGED <<mode, disk, heap, globals, stdout>>

\* a call lpf_modata(dat) or lpf_modata(dat, period) from any other caller
FunctionCall ==
  /\ pc = "call"
  /\ mode = "function"
  /\ Log("call")
  /\ Enter(callArgs)
  /\ Goto("L7")
  /\ UNCHANGED <<mode, disk, heap, globals, stdout>>

(***************************************************************************)
(* lpf_modata, lines 6-18                                                  *)
(***************************************************************************)
\* line 7: fs=1/(30.41667*24*3600)
SamplingFrequency ==
  /\ pc = "L7"
  /\ Log("fs")
  /\ locals' = Bind(locals, "fs", FDiv(One, MonthSeconds(DaysPerMonth)))
  /\ Goto("L8")
  /\ UNCHANGED <<mode, disk, heap, globals, callArgs, stdout, orig>>

\* line 8 without the halving: nyquist = fs
Nyquist_unhalved ==
  /\ pc = "L8"
  /\ Log("nyquist")
  /\ locals' = Bind(locals, "nyquist", locals["fs"])
  /\ Goto("L9")
  /\ UNCHANGED <<mode, disk, heap, globals, callArgs, stdout, orig>>

\* line 8: nyquist = fs / 2
Nyquist ==
  /\ pc = "L8"
  /\ Log("nyquist")
  /\ locals' = Bind(locals, "nyquist", FDiv(locals["fs"], FloatOfInt(2)))
  /\ Goto("L9")
  /\ UNCHANGED <<mode, disk, heap, globals, callArgs, stdout, orig>>

\* line 9: cutoff = fs/period
CutoffFrequency ==
  /\ pc = "L9"
  /\ Log("cutoff")
  /\ IF FIsZero(locals["period"])
     THEN Raise("ZeroDivisionError") /\ UNCHANGED locals
     ELSE /\ Goto("L10")
          /\ locals' = Bind(locals, "cutoff", FDiv(locals["fs"], locals["period"]))
  /\ UNCHANGED <<mode, disk, heap, globals, callArgs, stdout, orig>>

\* line 10: cutoff = cutoff/nyquist
NormalizeCutoff ==
  /\ pc = "L10"
  /\ Log("normalize")
  /\ locals' = Bind(locals, "cutoff", FDiv(locals["cutoff"], locals["nyquist"]))
  /\ Goto("L11")
  /\ UNCHANGED <<mode, disk, heap, globals, callArgs, stdout, orig>>

\* the value printed by line 11: (1/(cutoff*nyquist))/(30.41667*24*3600)
Diagnostic(cutoff, nyquist, days) ==
  FDiv(FDiv(One, FMul(cutoff, nyquist)), MonthSeconds(days))

\* line 11: print('cutoff= ',(1/(cutoff*nyquist))/(30.41667*24*3600),' months')
PrintCutoff ==
  /\ pc = "L11"
  /\ Log("print_cutoff")
  /\ IF FIsZero(FMul(locals["cutoff"], locals["nyquist"]))
     THEN Raise("ZeroDivisionError") /\ UNCHANGED stdout
     ELSE /\ Goto("L12")
          /\ stdout' = Append(stdout,
               <<"cutoff= ", Diagnostic(locals["cutoff"], locals["nyquist"], DaysPerMonth),
                 " months">>)
  /\ UNCHANGED <<mode, disk, heap, globals, callArgs, locals, orig>>

\* line 12 with the zero-fill moved in front of the filter design
DesignSos_after_fill ==
  /\ pc = "L12"
  /\ steps' = steps \o <<"fillna", "butter_sos">>
  /\ heap' = Append(heap, fillna(heap[locals["dat"]], Num(0)))
  /\ IF WnValid(locals["cutoff"])
     THEN /\ Goto("L13")
          /\ locals' = Bind(Bind(locals, "$filled", Len(heap) + 1), "filtsos",
                            butter(FilterOrder, locals["cutoff"], "sos"))
     ELSE Raise("InvalidFilterSpec") /\ locals' = Bind(locals, "$filled", Len(heap) + 1)
  /\ UNCHANGED <<mode, disk, globals, callArgs, stdout, orig>>

\* line 12: filtsos = signal.butter(4, cutoff, 'lowpass', output='sos')
DesignSos ==
  /\ pc = "L12"
  /\ Log("butter_sos")
  /\ IF WnValid(locals["cutoff"])
     THEN /\ Goto("L13")
          /\ locals' = Bind(locals, "filtsos", butter(FilterOrder, locals["cutoff"], "sos"))
     ELSE Raise("InvalidFilterSpec") /\ UNCHANGED locals
  /\ UNCHANGED <<mode, disk, heap, globals, callArgs, stdout, orig>>

\* line 13: filtb, filta = signal.butter(4, cutoff, 'lowpass')
DesignBa ==
  /\ pc = "L13"
  /\ Log("butter_ba")
  /\ IF WnValid(locals["cutoff"])
     THEN /\ Goto("L14a")
          /\ locals' = Bind(locals, "filtba", butter(FilterOrder, locals["cutoff"], "ba"))
     ELSE Raise("InvalidFilterSpec") /\ UNCHANGED locals
  /\ UNCHANGED <<mode, disk, heap, globals, callArgs, stdout, orig>>

\* line 14 with the zero-fill done in place, on the argument itself
FillNa_inplace ==
  /\ pc = "L14a"
  /\ Log("fillna")
  /\ heap' = [heap EXCEPT ![locals["dat"]] = fillna(heap[locals["dat"]], Num(0))]
  /\ locals' = Bind(locals, "$filled", locals["dat"])
  /\ Goto("L14b")
  /\ UNCHANGED <<mode, disk, globals, callArgs, stdout, orig>>

\* line 14, first argument evaluated: dat.fillna(0)
FillNa ==
  /\ pc = "L14a"
  /\ Log("fillna")
  /\ heap' = Append(heap, fillna(heap[locals["dat"]], Num(0)))
  /\ locals' = Bind(locals, "$filled", Len(heap) + 1)
  /\ Goto("L14b")
  /\ UNCHANGED <<mode, disk, globals, callArgs, stdout, orig>>

\* line 14: xr.apply_ufunc(signal.sosfiltfilt, filtsos, <filled>,
\*                         kwargs={'padtype':'even','axis':0})
ApplyFilter ==
  /\ pc = "L14b"
  /\ Log("sosfiltfilt")
  /\ IF SosFiltFiltFails(locals["filtsos"], heap[locals["$filled"]].shape)
     THEN Raise("AxisError") /\ UNCHANGED <<heap, locals>>
     ELSE /\ Goto("L14c")
          /\ heap' = Append(heap, apply_ufunc(locals["filtsos"], heap[locals["$filled"]], "even"))
          /\ locals' = Bind(locals, "$filtered", Len(heap) + 1)
  /\ UNCHANGED <<mode, disk, globals, callArgs, stdout, orig>>

\* line 14, argument of where: dat.notnull()
NotNull ==
  /\ pc = "L14c"
  /\ Log("notnull")
  /\ heap' = Append(heap, notnull(heap[locals["dat"]]))
  /\ locals' = Bind(locals, "$mask", Len(heap) + 1)
  /\ Goto("L14d")
  /\ UNCHANGED <<mode, disk, globals, callArgs, stdout, orig>>

\* line 14: dat_out = <filtered>.where(<mask>)
Where ==
  /\ pc = "L14d"
  /\ Log("where")
  /\ heap' = Append(heap, where(heap[locals["$filtered"]], heap[locals["$mask"]]))
  /\ locals' = Bind(locals, "dat_out", Len(heap) + 1)
  /\ Goto("L16")
  /\ UNCHANGED <<mode, disk, globals, callArgs, stdout, orig>>

\* line 16: print('Function call completed')
PrintCompleted ==
  /\ pc = "L16"
  /\ Log("print_completed")
  /\ stdout' = Append(stdout, <<"Function call completed">>)
  /\ Goto("L18")
  /\ UNCHANGED <<mode, disk, heap, globals, callArgs, locals, orig>>

\* the name the caller binds the returned array to (arr_lpf in line 24)
ResultName == IF mode = "script" THEN "arr_lpf" ELSE "result"

\* line 18: return dat_out; in the script, line 24 binds arr_lpf to it
Return ==
  /\ pc = "L18"
  /\ Log("return")
  /\ globals' = Bind(globals, ResultName, locals["dat_out"])
  /\ Goto(IF mode = "script" THEN "L26" ELSE "done")
  /\ UNCHANGED <<mode, disk, heap, callArgs, locals, stdout, orig>>

\* a writer that also runs after an error, writing what it has
ToNetcdf_on_error ==
  /\ pc \in {"L26", "error"}
  /\ mode = "script"
  /\ "arr" \in DOMAIN globals
  /\ Log("to_netcdf")
  /\ disk' = [disk EXCEPT !["tmp2.nc"] = <<Dataset("aa", heap[globals["arr"]])>>]
  /\ Goto("done")
  /\ UNCHANGED <<mode, heap, globals, callArgs, locals, stdout, orig>>

\* line 26: arr_lpf.to_netcdf('tmp2.nc')
ToNetcdf ==
  /\ pc = "L26"
  /\ Log("to_netcdf")
  /\ disk' = [disk EXCEPT !["tmp2.nc"] =
                <<Dataset(heap[globals["arr_lpf"]].name, heap[globals["arr_lpf"]])>>]
  /\ Goto("done")
  /\ UNCHANGED <<mode, heap, globals, callArgs, locals, stdout, orig>>

Next ==
  \/ OpenDataset
  \/ SelectVariable
  \/ ScriptCall
  \/ FunctionCall
  \/ SamplingFrequency
  \/ Nyquist
  \/ CutoffFrequency
  \/ NormalizeCutoff
  \/ PrintCutoff
  \/ DesignSos
  \/ DesignBa
  \/ FillNa
  \/ ApplyFilter
  \/ NotNull
  \/ Where
  \/ PrintCompleted
  \/ Return
  \/ ToNetcdf

Spec == Init /\ [][Next]_vars

(***************************************************************************)
(* Vocabulary of the properties                                            *)
(***************************************************************************)
Called == orig # <<>>

\* the argument array as it was when lpf_modata was called
Dat0 == orig[1]

Returned == ResultName \in DOMAIN globals

Result == heap[globals[ResultName]]

Ran(step) == \E i \in 1..Len(steps) : steps[i] = step

Count(step) == Cardinality({i \in 1..Len(steps) : steps[i] = step})

\* step a ran, and before every run of step b
Before(a, b) ==
  \A j \in 1..Len(steps) : steps[j] = b => \E i \in 1..(j - 1) : steps[i] = a

Period == locals["period"]

Two == FloatOfInt(2)

TooShort(a) == Len(a.shape) >= 1 /\ a.shape[1] <= PadLen(butter(FilterOrder, One, "sos"))

ColumnFinite(a, idx) == \A t \in 1..a.shape[1] : Column(a, idx)[t] # Inf

\* the float one unit in the last place further from zero / nearer to zero
MagUp(f) ==
  LET m == BigAdd(f.man, BigOfInt(1))
  IN  IF BitLen(m) > MantBits THEN [f EXCEPT !.man = BigShr(m, 1), !.exp = f.exp + 1]
      ELSE [f EXCEPT !.man = m]

MagDown(f) ==
  LET m == BigSub(f.man, BigOfInt(1))
  IN  IF BitLen(m) < MantBits THEN [f EXCEPT !.man = BigAdd(BigShl(m, 1), BigOfInt(1)), !.exp = f.exp - 1]
      ELSE [f EXCEPT !.man = m]

\* a is at most k units in the last place away from b (both nonzero)
RECURSIVE WithinUlps(_, _, _, _)
WithinUlps(a, up, down, k) ==
  \/ a = up
  \/ a = down
  \/ k > 0 /\ WithinUlps(a, MagUp(up), MagDown(down), k - 1)

Close(a, b, k) == WithinUlps(a, b, b, k)

\* lines 7-10 as one expression: the normalized cutoff for a period and a
\* month length in days
NormalizedCutoff(period, days) ==
  LET fs_     == FDiv(One, MonthSeconds(days))
      nyquist_ == FDiv(fs_, Two)
  IN  FDiv(FDiv(fs_, period), nyquist_)

\* line 14 as one expression
Line14(sos, dat) == where(apply_ufunc(sos, fillna(dat, Num(0)), "even"), notnull(dat))

\* month lengths tried for the independence of the month length
MonthDaysTried == {DaysPerMonth, FloatOfInt(30), FloatOfInt(31)}

(***************************************************************************)
(* C1                                                                      *)
(***************************************************************************)
\* C1, as stated: for every input, a position of the returned array is
\* missing if and only if that position of the input is missing.
C1_MaskPreservedForEveryInput ==
  Returned =>
    \A idx \in DOMAIN Dat0.data : isnull(Dat0.data[idx]) <=> isnull(Result.data[idx])

\* C1, amended: every missing position of the input is missing in the
\* returned array, and a non-missing position is non-missing in the returned
\* array provided its slice along axis 0 holds no infinite value.
C1_MaskPreserved ==
  Returned =>
    \A idx \in DOMAIN Dat0.data :
      /\ isnull(Dat0.data[idx]) => isnull(Result.data[idx])
      /\ ColumnFinite(Dat0, idx) => (isnull(Dat0.data[idx]) <=> isnull(Result.data[idx]))

C1_Witness ==
  /\ Returned
  /\ \E idx \in DOMAIN Dat0.data : isnull(Dat0.data[idx]) /\ isnull(Result.data[idx])
  /\ \E idx \in DOMAIN Dat0.data : ~isnull(Dat0.data[idx]) /\ ~isnull(Result.data[idx])
  /\ \E idx \in DOMAIN Dat0.data : Dat0.data[idx] = Inf

(***************************************************************************)
(* C2                                                                      *)
(***************************************************************************)
Rejected(kind) ==
  /\ "filtsos" \notin DOMAIN locals
  /\ ~Returned
  /\ pc \in {"L7", "L8", "L9", "L10", "L11", "L12", "error"}
  /\ pc = "error" => err = kind

Accepted ==
  /\ err \notin {"InvalidFilterSpec", "ZeroDivisionError"}
  /\ Ran("butter_sos") => "filtsos" \in DOMAIN locals
  /\ Ran("butter_ba") => "filtba" \in DOMAIN locals

\* C2, as stated: every period <= 2 (0 and negative ones included) ends in
\* InvalidFilterSpec with no array returned; every period > 2 is accepted.
C2_RejectsAllPeriodsUpTo2 ==
  Called => IF FLe(Period, Two) THEN Rejected("InvalidFilterSpec") ELSE Accepted

\* C2, amended: every period <= 2 other than 0 ends in InvalidFilterSpec,
\* period 0 ends in ZeroDivisionError at the cutoff computation of line 9, in
\* both cases with no array returned; every period > 2 is accepted.
C2_InvalidPeriodRejected ==
  Called =>
    IF FIsZero(Period) THEN Rejected("ZeroDivisionError") /\ "cutoff" \notin DOMAIN locals
    ELSE IF FLe(Period, Two) THEN Rejected("InvalidFilterSpec")
    ELSE Accepted

C2_Witness ==
  /\ Called
  /\ FEq(Period, Two)
  /\ pc = "error"
  /\ err = "InvalidFilterSpec"

(***************************************************************************)
(* C3                                                                      *)
(***************************************************************************)
\* C3: the returned array has the shape, the dimensions and the coordinates
\* of the input.
C3_ShapePreserved ==
  Returned =>
    /\ Result.shape = Dat0.shape
    /\ Result.dims = Dat0.dims
    /\ Result.coords = Dat0.coords
    /\ DOMAIN Result.data = DOMAIN Dat0.data

C3_Witness ==
  /\ Returned
  /\ Len(Dat0.shape) = 2
  /\ Dat0.shape[1] > PadLen(locals["filtsos"])
  /\ Result.shape = Dat0.shape

(***************************************************************************)
(* C4                                                                      *)
(***************************************************************************)
\* C4: from the call on, whether lpf_modata returns or fails, the argument
\* array is unchanged, and the zero-filled array, the filtered array, the
\* mask and the returned array are objects other than the argument.
C4_InputNotMutated ==
  Called =>
    /\ heap[locals["dat"]] = Dat0
    /\ \A n \in DOMAIN locals :
         n \in {"$filled", "$filtered", "$mask", "dat_out"} => locals[n] # locals["dat"]
    /\ Returned => globals[ResultName] # locals["dat"]

C4_Witness ==
  /\ Returned
  /\ \E idx \in DOMAIN Dat0.data :
       isnull(Dat0.data[idx]) /\ heap[locals["$filled"]].data[idx] = Num(0)
  /\ heap[locals["dat"]] = Dat0

(***************************************************************************)
(* C5                                                                      *)
(***************************************************************************)
NoOutput ==
  /\ ~Returned
  /\ "$filtered" \notin DOMAIN locals
  /\ disk["tmp2.nc"] = <<>>
  /\ ~Ran("to_netcdf")

\* C5, as stated: a call with a series of at most padlen samples along axis
\* 0 ends in AxisError, with no array returned and no file written.
C5_ShortSeriesAxisError ==
  (Called /\ TooShort(Dat0)) =>
    /\ NoOutput
    /\ pc # "done"
    /\ pc = "error" => err = "AxisError"

\* C5, amended: a call with a valid period (> 2) and a series of at most
\* padlen samples along axis 0 ends in AxisError, with no array returned and
\* no file written.
C5_ShortSeriesValidPeriodAxisError ==
  (Called /\ TooShort(Dat0) /\ FLt(Two, Period)) =>
    /\ NoOutput
    /\ pc # "done"
    /\ pc = "error" => err = "AxisError"

C5_Witness ==
  /\ Called
  /\ Dat0.shape # <<>>
  /\ Dat0.shape[1] = PadLen(butter(FilterOrder, One, "sos"))
  /\ err = "AxisError"
  /\ pc = "error"

(***************************************************************************)
(* C6                                                                      *)
(***************************************************************************)
\* C6: the filter design runs before the zero-fill, the filtering and the
\* mask restoration, and none of those ran in a run that ended in
\* InvalidFilterSpec.
C6_FailFast ==
  /\ Before("butter_sos", "fillna")
  /\ Before("butter_sos", "sosfiltfilt")
  /\ Before("butter_sos", "notnull")
  /\ Before("butter_sos", "where")
  /\ err = "InvalidFilterSpec" =>
       /\ ~Ran("fillna") /\ ~Ran("sosfiltfilt") /\ ~Ran("notnull") /\ ~Ran("where")
       /\ Len(heap) = 1

C6_Witness ==
  /\ err = "InvalidFilterSpec"
  /\ Ran("butter_sos")
  /\ \E idx \in DOMAIN Dat0.data : isnull(Dat0.data[idx])

(***************************************************************************)
(* C7                                                                      *)
(***************************************************************************)
\* C7: the loader, the call and the writer each run at most once and in
\* that order; the writer runs only after lpf_modata returned; after an
\* error nothing runs any more and the writer never ran.
C7_ControlFlow ==
  /\ \A st \in {"open_dataset", "getitem", "call", "return", "to_netcdf"} : Count(st) <= 1
  /\ mode = "script" => Before("open_dataset", "getitem") /\ Before("getitem", "call")
  /\ Before("call", "return")
  /\ Before("return", "to_netcdf")
  /\ Ran("to_netcdf") => err = "none"
  /\ err # "none" => pc = "error" /\ ~ENABLED Next /\ disk["tmp2.nc"] = <<>>

C7_Witness ==
  /\ mode = "script"
  /\ Ran("to_netcdf")
  /\ disk["tmp2.nc"] = <<Dataset("aa", Result)>>
  /\ pc = "done"

(***************************************************************************)
(* C9                                                                      *)
(***************************************************************************)
\* C9: the array handed to the filter has no missing value, the mask is the
\* notnull mask of the unchanged input and is applied once, after the
\* filtering, and at every non-missing position the returned value is the
\* one returned for the input with its missing values replaced by 0.
C9_ZeroFillMaskEquivalence ==
  /\ "$filled" \in DOMAIN locals =>
       \A idx \in DOMAIN Dat0.data : ~isnull(heap[locals["$filled"]].data[idx])
  /\ "$mask" \in DOMAIN locals => heap[locals["$mask"]] = notnull(Dat0)
  /\ Count("where") <= 1
  /\ Before("fillna", "sosfiltfilt")
  /\ Before("sosfiltfilt", "where")
  /\ Returned =>
       \A idx \in DOMAIN Dat0.data :
         ~isnull(Dat0.data[idx]) =>
           Result.data[idx] = Line14(locals["filtsos"], fillna(Dat0, Num(0))).data[idx]

C9_Witness ==
  /\ Returned
  /\ Ran("where")
  /\ \E idx \in DOMAIN Dat0.data : isnull(Dat0.data[idx])
  /\ \E idx \in DOMAIN Dat0.data : isfinite(Result.data[idx])
  /\ \A idx \in DOMAIN Dat0.data : Dat0.data[idx] # Inf

(***************************************************************************)
(* C10                                                                     *)
(***************************************************************************)
Printed == Ran("print_cutoff") /\ stdout # <<>>

\* the value line 11 printed
PrintedCutoff == stdout[1][2]

====
